---- MODULE Spec2Model ----
(***************************************************************************)
(* The notebook vector_data_bases_and_vector_embeddings.ipynb as a state   *)
(* machine: the interpreter runs the code cells top to bottom, every call  *)
(* to the embedding endpoint and to the clustering library is an external  *)
(* call that is sent, is in flight, and returns or raises.                 *)
(*                                                                         *)
(* A vector is a record [type, dim, head]: `type` is the Python type that  *)
(* holds it ("list" as parsed from the response, "ndarray" after           *)
(* np.array), `dim` is its length, and `head` are its first Support        *)
(* components; the components after the head are all 0.  NoneVal stands    *)
(* for a name that is not bound yet.                                       *)
(***************************************************************************)
EXTENDS Integers, Sequences, FiniteSets, TLC

VARIABLES
    env_key,              \* os.environ holds OPENAI_API_KEY
    api_key,              \* openai.api_key
    pc,                   \* the statement the interpreter is at
    blocked,              \* the interpreter waits inside an external call
    loop_i,               \* iterations of `for profile in profiles` completed
    sent,                 \* every request sent to the endpoint, in order
    last_response,        \* the latest outcome of a request: [id, data]
    inflight,             \* the external calls that have not returned yet
    embedding,            \* the notebook's global `embedding`
    dog_vector,
    cat_vector,
    penguin_vector,
    distance_dog_to_cat,      \* squared norm (the notebook takes its root)
    distance_dog_to_penguin,  \* squared norm
    profiles_vectorized,
    kmeans,               \* the KMeans object: [fitted, labels_, cluster_centers_]
    fits,                 \* labels_ of every completed kmeans.fit, in order
    df,                   \* the results table, a sequence of rows
    error,                \* the exception that reached the notebook runtime
    invocations,          \* every get_embedding invocation: its arguments, request, result
    helper_args,          \* arguments of the get_embedding calls of a helper session
    estimate,             \* the storage estimate of the notebook's text, step by step
    disk,                 \* what the notebook has written outside the kernel's memory
    restarted             \* the kernel has been restarted since the first session began

vars == <<env_key, api_key, pc, blocked, loop_i, sent, last_response, inflight,
          embedding, dog_vector, cat_vector, penguin_vector,
          distance_dog_to_cat, distance_dog_to_penguin, profiles_vectorized,
          kmeans, fits, df, error, invocations, helper_args, estimate, disk,
          restarted>>

(***************************************************************************)
(* Bounds of the model.                                                    *)
(***************************************************************************)
\* Components of a vector that may differ from 0.
Support == 2
\* Distinct embeddings the endpoint may answer with, per model.
NumVecs == 2
\* Distinct profile embeddings of the sessions that start at the clustering cell.
ClusterVecs == 3
\* Seeds the operating system's entropy may give an unseeded generator.
MaxEntropy == 3
\* Times the clustering cell is executed again in an interactive session.
MaxReruns == 1
\* get_embedding calls of a helper session.
MaxCalls == 2

(***************************************************************************)
(* The notebook's literals.                                                *)
(***************************************************************************)
text_string == "Hello, world!"

\* A global identifier that names another embedding model.
model_id_babbage == "text-similarity-babbage-001"

model_id == "text-embedding-ada-002"

\* A helper whose default names another engine than the global model_id.
default_model_id_davinci == "text-similarity-davinci-001"

\* The default of get_embedding's parameter model_id.
default_model_id == "text-embedding-ada-002"

\* Another engine of the endpoint, for calls that name one.
other_model_id == "text-similarity-davinci-001"

profiles == << "Green Fuel Oasis, Surrey",
               "Coastal Retreat Rest Stop, Cornwall",
               "TechHub Express, Manchester",
               "Highland Haven, Scotland",
               "Countryside Classic, Cotswolds" >>

\* len(embedding) as the notebook prints it for text-embedding-ada-002.
AdaDim == 1536

NoneVal == [type |-> "NoneType", dim |-> 0, head |-> <<>>]

(***************************************************************************)
(* The embedding endpoint, as the notebook documents it: an answer to a    *)
(* request is a vector whose length depends on the engine alone.           *)
(***************************************************************************)
EmbeddingDim(engine) == IF engine = "text-embedding-ada-002" THEN AdaDim ELSE AdaDim * 8

\* The j-th vector the endpoint may answer with: the binary digits of j-1.
HeadOf(j) == [k \in 1..Support |-> ((j - 1) \div (2 ^ (k - 1))) % 2]

\* ...['data'][0]['embedding'] of a well-formed response: a Python list.
ApiEmbedding(engine, j) == [type |-> "list", dim |-> EmbeddingDim(engine), head |-> HeadOf(j)]

\* What a request raises instead of answering: no connection, a rejected
\* credential, a response without data[0].embedding.
FailureKinds == {"APIConnectionError", "AuthenticationError", "KeyError"}

Failure(kind) == [type |-> kind, dim |-> 0, head |-> <<>>]

IsFailure(r) == r.type \in FailureKinds

(***************************************************************************)
(* Control flow: the statements in the order of the cells.                 *)
(***************************************************************************)
\* An order of the cells in which the clustering cell precedes the loop.
StatementsClusterFirst ==
    << "load_key", "hello", "dog", "cat", "penguin", "dist_cat", "dist_penguin",
       "kmeans", "loop", "table", "done" >>

Statements == << "load_key", "hello", "dog", "cat", "penguin", "dist_cat",
                 "dist_penguin", "loop", "kmeans", "table", "done" >>

Following(p) == LET k == CHOOSE n \in 1..Len(Statements) : Statements[n] = p
                IN  Statements[k + 1]

\* A loop that leaves out the last element of profiles.
AdvanceShort ==
    IF pc = "loop"
    THEN /\ loop_i' = loop_i + 1
         /\ pc' = IF loop_i + 2 >= Len(profiles) THEN Following(pc) ELSE pc
         /\ UNCHANGED helper_args
    ELSE IF pc = "helper"
    THEN /\ helper_args' = Tail(helper_args)
         /\ UNCHANGED <<pc, loop_i>>
    ELSE /\ pc' = Following(pc)
         /\ UNCHANGED <<loop_i, helper_args>>

\* The statement at pc has completed: go on with the next one.  The for
\* loop stays at its body until every profile has been visited; a helper
\* session goes on with the next call of its list.
Advance ==
    IF pc = "loop"
    THEN /\ loop_i' = loop_i + 1
         /\ pc' = IF loop_i + 1 >= Len(profiles) THEN Following(pc) ELSE pc
         /\ UNCHANGED helper_args
    ELSE IF pc = "helper"
    THEN /\ helper_args' = Tail(helper_args)
         /\ UNCHANGED <<pc, loop_i>>
    ELSE /\ pc' = Following(pc)
         /\ UNCHANGED <<loop_i, helper_args>>

\* A call dispatched without waiting (an asynchronous client): the
\* interpreter goes on with the next statement at once.
AwaitAsync == /\ blocked' = FALSE
              /\ Advance

\* A call of the synchronous client: the interpreter waits for it.
Await == /\ blocked' = TRUE
         /\ UNCHANGED <<pc, loop_i, helper_args>>

\* An exception caught by a retrying handler: the statement runs again.
RaiseRetried(kind) == /\ blocked' = FALSE
                      /\ UNCHANGED <<error, pc, loop_i, helper_args>>

\* An exception swallowed by `except: continue`: the run goes on with the
\* next statement, or the next iteration of the loop.
RaiseSkipped(kind) == /\ blocked' = FALSE
                      /\ Advance
                      /\ UNCHANGED error

\* An exception: no statement of the notebook catches it, the runtime
\* reports it and the run stops.
Raise(kind) == /\ error' = kind
               /\ pc' = "failed"
               /\ blocked' = FALSE
               /\ UNCHANGED <<loop_i, helper_args>>

\* np.array(l): an ndarray with the elements of the list l, in order.
np_array(l) == [type |-> "ndarray", dim |-> l.dim, head |-> [k \in 1..Len(l.head) |-> l.head[k]]]

\* openai.api_key = os.environ.get("OPENAI_API_KEY"): a missing variable
\* yields None and the run goes on without a key.
LoadKeyLenient ==
    /\ pc = "load_key" /\ ~blocked
    /\ api_key' = IF env_key THEN "sk" ELSE "unset"
    /\ Advance
    /\ UNCHANGED <<blocked, error>>
    /\ UNCHANGED <<disk, restarted, estimate, env_key, sent, last_response, inflight, embedding, dog_vector,
                   cat_vector, penguin_vector, distance_dog_to_cat,
                   distance_dog_to_penguin, profiles_vectorized, kmeans, fits,
                   df, invocations>>

(***************************************************************************)
(* openai.api_key = os.environ["OPENAI_API_KEY"]                           *)
(***************************************************************************)
LoadKey ==
    /\ pc = "load_key" /\ ~blocked
    /\ IF env_key
       THEN /\ api_key' = "sk"
            /\ Advance
            /\ UNCHANGED <<blocked, error>>
       ELSE /\ Raise("KeyError")
            /\ UNCHANGED api_key
    /\ UNCHANGED <<disk, restarted, estimate, env_key, sent, last_response, inflight, embedding, dog_vector,
                   cat_vector, penguin_vector, distance_dog_to_cat,
                   distance_dog_to_penguin, profiles_vectorized, kmeans, fits,
                   df, invocations>>

(***************************************************************************)
(* openai.Embedding.create(input=..., engine=...): one request is sent and *)
(* the caller waits.  `dest` is the name the result is bound to and `via`  *)
(* the code that made the call.                                            *)
(***************************************************************************)
EmbeddingCreate(input, engine, dest, via) ==
    /\ sent' = Append(sent, [input |-> input, engine |-> engine])
    /\ inflight' = inflight \cup {[id |-> Len(sent) + 1, callee |-> "Embedding.create",
                                   dest |-> dest, via |-> via]}
    /\ Await
    /\ UNCHANGED last_response

\* embedding = openai.Embedding.create(input=text_string, engine=model_id)[...]
HelloCall ==
    /\ pc = "hello" /\ ~blocked
    /\ EmbeddingCreate(text_string, model_id, "embedding", "inline")
    /\ UNCHANGED <<disk, restarted, estimate, env_key, api_key, embedding, dog_vector, cat_vector,
                   penguin_vector, distance_dog_to_cat, distance_dog_to_penguin,
                   profiles_vectorized, kmeans, fits, df, error, invocations>>

\* A helper that keeps a cache: a string it has an embedding for is answered
\* from the cache, without a request.
get_embedding_cached(string, m, dest) ==
    LET hits == {n \in 1..Len(invocations) :
                    /\ invocations[n].string = string
                    /\ invocations[n].model_id = m
                    /\ invocations[n].result # NoneVal}
    IN  IF hits = {}
        THEN /\ EmbeddingCreate(string, m, dest, "get_embedding")
             /\ invocations' = Append(invocations, [string |-> string, model_id |-> m,
                                                    request |-> Len(sent) + 1,
                                                    result |-> NoneVal])
        ELSE LET h == CHOOSE n \in hits : TRUE
             IN  /\ invocations' = Append(invocations, invocations[h])
                 /\ Advance
                 /\ UNCHANGED <<blocked, sent, inflight, last_response>>

\* get_embedding(string, model_id): the helper's call of the endpoint.
get_embedding(string, m, dest) ==
    /\ EmbeddingCreate(string, m, dest, "get_embedding")
    /\ invocations' = Append(invocations, [string |-> string, model_id |-> m,
                                           request |-> Len(sent) + 1, result |-> NoneVal])

\* dog_vector = get_embedding("dog"), and the like for cat and penguin.
AnimalCall ==
    /\ pc \in {"dog", "cat", "penguin"} /\ ~blocked
    /\ get_embedding(pc, default_model_id, pc \o "_vector")
    /\ UNCHANGED <<disk, restarted, estimate, env_key, api_key, embedding, dog_vector, cat_vector,
                   penguin_vector, distance_dog_to_cat, distance_dog_to_penguin,
                   profiles_vectorized, kmeans, fits, df, error>>

\* The body of `for profile in profiles`: the request for the next profile.
ProfileCall ==
    /\ pc = "loop" /\ ~blocked
    /\ loop_i < Len(profiles)
    /\ EmbeddingCreate(profiles[loop_i + 1], model_id, "profiles_vectorized", "inline")
    /\ UNCHANGED <<disk, restarted, estimate, env_key, api_key, embedding, dog_vector, cat_vector,
                   penguin_vector, distance_dog_to_cat, distance_dog_to_penguin,
                   profiles_vectorized, kmeans, fits, df, error, invocations>>

\* A loop body that puts the new vector in front: insert(0, embedding).
\* A cell that also stores what it binds: np.save, to_csv, an upsert into
\* a vector database.
SavedToDisk(name, value) == {[name |-> name, value |-> value]}

\* What the notebook writes outside the kernel's memory when it binds a
\* name: nothing, no cell writes a file or a database.
Saved(name, value) == {}

BindInFront(dest, v) ==
    /\ embedding' = IF dest \in {"embedding", "profiles_vectorized"} THEN v ELSE embedding
    /\ dog_vector' = IF dest = "dog_vector" THEN v ELSE dog_vector
    /\ cat_vector' = IF dest = "cat_vector" THEN v ELSE cat_vector
    /\ penguin_vector' = IF dest = "penguin_vector" THEN v ELSE penguin_vector
    /\ profiles_vectorized' = IF dest = "profiles_vectorized"
                              THEN <<v>> \o profiles_vectorized
                              ELSE profiles_vectorized

\* The name `dest` is bound to v; the loop body also appends v.
Bind(dest, v) ==
    /\ embedding' = IF dest \in {"embedding", "profiles_vectorized"} THEN v ELSE embedding
    /\ dog_vector' = IF dest = "dog_vector" THEN v ELSE dog_vector
    /\ cat_vector' = IF dest = "cat_vector" THEN v ELSE cat_vector
    /\ penguin_vector' = IF dest = "penguin_vector" THEN v ELSE penguin_vector
    /\ profiles_vectorized' = IF dest = "profiles_vectorized"
                              THEN Append(profiles_vectorized, v)
                              ELSE profiles_vectorized

\* The result of the get_embedding invocation that sent request id.
Returned(id, v) ==
    [n \in 1..Len(invocations) |->
        IF invocations[n].request = id
        THEN [invocations[n] EXCEPT !.result = v]
        ELSE invocations[n]]

\* The interpreter goes on after the call it waited for.
Resume == IF blocked
          THEN blocked' = FALSE /\ Advance
          ELSE UNCHANGED <<blocked, pc, loop_i, helper_args>>

\* A request is answered: the embedding of the response is the value of
\* the call (get_embedding casts it with np.array first).
EmbeddingReturn ==
    \E c \in inflight :
        /\ c.callee = "Embedding.create"
        /\ \E j \in 1..NumVecs :
            LET resp == ApiEmbedding(sent[c.id].engine, j)
                v    == IF c.via = "get_embedding" THEN np_array(resp) ELSE resp
            IN  /\ last_response' = [id |-> c.id, data |-> resp]
                /\ Bind(c.dest, v)
                /\ disk' = disk \cup Saved(c.dest, v)
                /\ invocations' = IF c.via = "get_embedding"
                                  THEN Returned(c.id, v) ELSE invocations
        /\ inflight' = inflight \ {c}
        /\ Resume
        /\ UNCHANGED <<restarted, estimate, env_key, api_key, sent, distance_dog_to_cat,
                       distance_dog_to_penguin, kmeans, fits, df, error>>

\* A request fails: the exception leaves the call and nothing is bound.
EmbeddingFail ==
    \E c \in inflight :
        /\ c.callee = "Embedding.create"
        /\ \E kind \in FailureKinds :
            /\ last_response' = [id |-> c.id, data |-> Failure(kind)]
            /\ Raise(kind)
        /\ inflight' = inflight \ {c}
        /\ UNCHANGED <<disk, restarted, estimate, env_key, api_key, sent, embedding, dog_vector, cat_vector,
                       penguin_vector, distance_dog_to_cat, distance_dog_to_penguin,
                       profiles_vectorized, kmeans, fits, df, invocations>>

(***************************************************************************)
(* np.linalg.norm(a - b): the subtraction needs two arrays of one shape.   *)
(***************************************************************************)
RECURSIVE SumTo(_, _)
SumTo(f, n) == IF n = 0 THEN 0 ELSE f[n] + SumTo(f, n - 1)

Subtractable(a, b) == a.type = "ndarray" /\ b.type = "ndarray" /\ a.dim = b.dim

\* The square of np.linalg.norm(a - b).
SqDistance(a, b) ==
    SumTo([k \in 1..Len(a.head) |-> (a.head[k] - b.head[k]) * (a.head[k] - b.head[k])],
          Len(a.head))

\* distance_dog_to_cat = np.linalg.norm(dog_vector - cat_vector), and the
\* like for the penguin.
Distance ==
    /\ pc \in {"dist_cat", "dist_penguin"} /\ ~blocked
    /\ LET other == IF pc = "dist_cat" THEN cat_vector ELSE penguin_vector
       IN  IF Subtractable(dog_vector, other)
           THEN /\ distance_dog_to_cat' = IF pc = "dist_cat"
                                          THEN SqDistance(dog_vector, other)
                                          ELSE distance_dog_to_cat
                /\ distance_dog_to_penguin' = IF pc = "dist_penguin"
                                              THEN SqDistance(dog_vector, other)
                                              ELSE distance_dog_to_penguin
                /\ Advance
                /\ UNCHANGED <<blocked, error>>
           ELSE /\ Raise(IF dog_vector.type = "ndarray" /\ other.type = "ndarray"
                         THEN "ValueError" ELSE "TypeError")
                /\ UNCHANGED <<distance_dog_to_cat, distance_dog_to_penguin>>
    /\ UNCHANGED <<disk, restarted, estimate, env_key, api_key, sent, last_response, inflight, embedding,
                   dog_vector, cat_vector, penguin_vector, profiles_vectorized,
                   kmeans, fits, df, invocations>>

(***************************************************************************)
(* sklearn.cluster.KMeans(n_clusters, n_init='auto', random_state).fit(X): *)
(* one k-means++ initialisation drawn from the generator the seed fixes,   *)
(* then Lloyd's iteration.  A centre is kept as the sum and the number of  *)
(* its points, so that means are compared without division.                *)
(***************************************************************************)
\* random_state=None: the generator is seeded from the system's entropy.
Unseeded == 0 - 1

\* A call that asks for one cluster more.
n_clusters_three == 2 + 1

n_clusters == 2

\* A call that leaves the seed out.
random_state_none == Unseeded

random_state == 40

SeedSpace(rs) == IF rs = Unseeded THEN 0..MaxEntropy ELSE {rs}

\* The t-th draw of the generator seeded with seed, in 0..m-1.
Rng(seed, t, m) == ((seed + 1) * 7919 + t * 104729) % m

PointCentre(p) == [sum |-> p, cnt |-> 1]

\* cnt^2 times the squared distance of point p to centre c.
ScaledSq(p, c) ==
    SumTo([k \in 1..Len(p) |-> (c.cnt * p[k] - c.sum[k]) * (c.cnt * p[k] - c.sum[k])], Len(p))

\* p is no farther from centre a than from centre b / strictly nearer.
NoFarther(p, a, b) == ScaledSq(p, a) * b.cnt * b.cnt <= ScaledSq(p, b) * a.cnt * a.cnt

Nearer(p, a, b) == ScaledSq(p, a) * b.cnt * b.cnt < ScaledSq(p, b) * a.cnt * a.cnt

SameCentre(a, b) == \A k \in 1..Len(a.sum) : a.sum[k] * b.cnt = b.sum[k] * a.cnt

\* Squared distance of two points.
PointSq(p, q) == SumTo([k \in 1..Len(p) |-> (p[k] - q[k]) * (p[k] - q[k])], Len(p))

Min(a, b) == IF a <= b THEN a ELSE b

\* np.searchsorted(cumsum(w), r): the first index whose running sum passes r.
Searchsorted(w, r) ==
    IF SumTo(w, Len(w)) = 0 THEN 1
    ELSE CHOOSE i \in 1..Len(w) :
            /\ SumTo(w, i) > r
            /\ \A j \in 1..(i - 1) : SumTo(w, j) <= r

\* n_local_trials = 2 + int(log(n_clusters))
NLocalTrials(k) == 2 + (IF k >= 3 THEN 1 ELSE 0)

\* k-means++: the indices of the points taken as the first centres.
RECURSIVE KMeansPlusPlus(_, _, _, _, _)
KMeansPlusPlus(P, k, seed, chosen, closest) ==
    IF Len(chosen) = k THEN chosen
    ELSE LET n      == Len(P)
             L      == NLocalTrials(k)
             pot    == SumTo(closest, n)
             cand   == [t \in 1..L |->
                          Searchsorted(closest,
                              IF pot = 0 THEN 0
                              ELSE Rng(seed, (Len(chosen) - 1) * L + t, pot))]
             new(t) == [i \in 1..n |-> Min(closest[i], PointSq(P[i], P[cand[t]]))]
             best   == CHOOSE t \in 1..L :
                          /\ \A u \in 1..L : SumTo(new(t), n) <= SumTo(new(u), n)
                          /\ \A u \in 1..(t - 1) : SumTo(new(u), n) > SumTo(new(t), n)
         IN  KMeansPlusPlus(P, k, seed, Append(chosen, cand[best]), new(best))

InitCentres(P, k, seed) ==
    LET first == Rng(seed, 0, Len(P)) + 1
        ids   == KMeansPlusPlus(P, k, seed, <<first>>,
                                [i \in 1..Len(P) |-> PointSq(P[i], P[first])])
    IN  [c \in 1..k |-> PointCentre(P[ids[c]])]

\* The label of a point: the index (from 0) of its nearest centre, the
\* lowest one on a tie.
Label(p, centres) ==
    (CHOOSE c \in 1..Len(centres) :
        /\ \A d \in 1..Len(centres) : NoFarther(p, centres[c], centres[d])
        /\ \A d \in 1..(c - 1) : Nearer(p, centres[c], centres[d])) - 1

Labels(P, centres) == [i \in 1..Len(P) |-> Label(P[i], centres)]

Members(lab, g) == {i \in 1..Len(lab) : lab[i] = g}

RECURSIVE SumPoints(_, _, _)
SumPoints(P, S, dims) ==
    IF S = {} THEN [k \in 1..dims |-> 0]
    ELSE LET i == CHOOSE x \in S : TRUE
             r == SumPoints(P, S \ {i}, dims)
         IN  [k \in 1..dims |-> P[i][k] + r[k]]

\* The point an empty cluster is moved to: the one farthest from the centre
\* it is assigned to (the e-th farthest for the e-th empty cluster).
RECURSIVE Farthest(_, _, _, _, _)
Farthest(P, lab, centres, taken, e) ==
    LET free == (1..Len(P)) \ taken
        far  == CHOOSE i \in free :
                   /\ \A j \in free :
                        ScaledSq(P[j], centres[lab[j] + 1]) * centres[lab[i] + 1].cnt * centres[lab[i] + 1].cnt
                          <= ScaledSq(P[i], centres[lab[i] + 1]) * centres[lab[j] + 1].cnt * centres[lab[j] + 1].cnt
                   /\ \A j \in free :
                        (j < i) =>
                        ScaledSq(P[j], centres[lab[j] + 1]) * centres[lab[i] + 1].cnt * centres[lab[i] + 1].cnt
                          < ScaledSq(P[i], centres[lab[i] + 1]) * centres[lab[j] + 1].cnt * centres[lab[j] + 1].cnt
    IN  IF e = 1 THEN far ELSE Farthest(P, lab, centres, taken \cup {far}, e - 1)

\* The centres of the next iteration: the mean of each cluster's points; an
\* empty cluster takes a far point from the cluster that holds it.
NewCentres(P, lab, centres) ==
    LET k      == Len(centres)
        dims   == Len(P[1])
        empty  == {g \in 0..(k - 1) : Members(lab, g) = {}}
        rank(g) == Cardinality({h \in empty : h <= g})
        moved(g) == Farthest(P, lab, centres, {}, rank(g))
        gone(g) == {moved(h) : h \in empty} \cap Members(lab, g)
    IN  [c \in 1..k |->
            IF (c - 1) \in empty
            THEN PointCentre(P[moved(c - 1)])
            ELSE [sum |-> SumPoints(P, Members(lab, c - 1) \ gone(c - 1), dims),
                  cnt |-> Cardinality(Members(lab, c - 1) \ gone(c - 1))]]

\* Lloyd's iteration, until the labels repeat, the centres stop moving, or
\* max_iter (300) iterations are done.
RECURSIVE Lloyd(_, _, _, _)
Lloyd(P, centres, labels_old, it) ==
    LET lab == Labels(P, centres)
        new == NewCentres(P, lab, centres)
    IN  IF lab = labels_old
        THEN [labels_ |-> lab, cluster_centers_ |-> new]
        ELSE IF (\A c \in 1..Len(centres) : SameCentre(new[c], centres[c])) \/ it + 1 >= 300
        THEN [labels_ |-> Labels(P, new), cluster_centers_ |-> new]
        ELSE Lloyd(P, new, lab, it + 1)

\* fit(X) accepts a rectangular array with at least n_clusters rows.
Fittable(X, k) ==
    /\ Len(X) >= k
    /\ \A i \in 1..Len(X) : X[i].type \in {"list", "ndarray"} /\ X[i].dim = X[1].dim

KMeansFit(X, k, seed) ==
    LET P == [i \in 1..Len(X) |-> X[i].head]
    IN  Lloyd(P, InitCentres(P, k, seed), [i \in 1..Len(P) |-> 0 - 1], 0)

\* kmeans = KMeans(n_clusters=2, n_init='auto', random_state=40) and the
\* call of kmeans.fit(profiles_vectorized).
KMeansCall ==
    /\ pc = "kmeans" /\ ~blocked
    /\ kmeans' = [fitted |-> FALSE, labels_ |-> <<>>, cluster_centers_ |-> <<>>]
    /\ inflight' = inflight \cup {[id |-> 0, callee |-> "KMeans.fit",
                                   dest |-> "kmeans", via |-> "inline"]}
    /\ Await
    /\ UNCHANGED <<disk, restarted, estimate, env_key, api_key, sent, last_response, embedding, dog_vector,
                   cat_vector, penguin_vector, distance_dog_to_cat,
                   distance_dog_to_penguin, profiles_vectorized, fits, df,
                   error, invocations>>

\* l[::-1]
Reversed(l) == [i \in 1..Len(l) |-> l[Len(l) + 1 - i]]

\* A fit on the list in another order than the one the labels are read in:
\* kmeans.fit(profiles_vectorized[::-1]).
KMeansReturnReversed ==
    \E c \in inflight :
        /\ c.callee = "KMeans.fit"
        /\ inflight' = inflight \ {c}
        /\ IF Fittable(profiles_vectorized, n_clusters)
           THEN \E seed \in SeedSpace(random_state) :
                   LET r == KMeansFit(Reversed(profiles_vectorized), n_clusters, seed)
                   IN  /\ kmeans' = [fitted |-> TRUE, labels_ |-> r.labels_,
                                     cluster_centers_ |-> r.cluster_centers_]
                       /\ fits' = Append(fits, r.labels_)
                       /\ disk' = disk \cup Saved("kmeans", r.labels_)
                       /\ Resume
                       /\ UNCHANGED error
           ELSE /\ Raise("ValueError")
                /\ UNCHANGED <<kmeans, fits, disk>>
        /\ UNCHANGED <<restarted, estimate, env_key, api_key, sent, last_response, embedding, dog_vector,
                       cat_vector, penguin_vector, distance_dog_to_cat,
                       distance_dog_to_penguin, profiles_vectorized, df,
                       invocations>>

\* kmeans.fit returns: the object holds labels_ and cluster_centers_.
KMeansReturn ==
    \E c \in inflight :
        /\ c.callee = "KMeans.fit"
        /\ inflight' = inflight \ {c}
        /\ IF Fittable(profiles_vectorized, n_clusters)
           THEN \E seed \in SeedSpace(random_state) :
                   LET r == KMeansFit(profiles_vectorized, n_clusters, seed)
                   IN  /\ kmeans' = [fitted |-> TRUE, labels_ |-> r.labels_,
                                     cluster_centers_ |-> r.cluster_centers_]
                       /\ fits' = Append(fits, r.labels_)
                       /\ disk' = disk \cup Saved("kmeans", r.labels_)
                       /\ Resume
                       /\ UNCHANGED error
           ELSE /\ Raise("ValueError")
                /\ UNCHANGED <<kmeans, fits, disk>>
        /\ UNCHANGED <<restarted, estimate, env_key, api_key, sent, last_response, embedding, dog_vector,
                       cat_vector, penguin_vector, distance_dog_to_cat,
                       distance_dog_to_penguin, profiles_vectorized, df,
                       invocations>>

(***************************************************************************)
(* df = pd.DataFrame({"cluster": kmeans.labels_, "text": profiles})        *)
(*        .sort_values(by=['cluster']).reset_index(drop=True)              *)
(***************************************************************************)
\* One row per position, indexed from 0.
DataFrame(cluster, text) ==
    [i \in 1..Len(text) |-> [index |-> i - 1, cluster |-> cluster[i], text |-> text[i]]]

\* The row r put into the sorted rows, behind the rows that do not sort
\* after it (numpy sorts so short an array by insertion).
RECURSIVE Insert(_, _)
Insert(r, rows) ==
    IF rows = <<>> THEN <<r>>
    ELSE IF rows[Len(rows)].cluster <= r.cluster THEN Append(rows, r)
    ELSE Append(Insert(r, SubSeq(rows, 1, Len(rows) - 1)), rows[Len(rows)])

RECURSIVE SortPrefix(_, _)
SortPrefix(rows, n) == IF n = 0 THEN <<>> ELSE Insert(rows[n], SortPrefix(rows, n - 1))

\* A sort of the cluster column alone: the texts stay where they were.
sort_values_column(rows) ==
    [i \in 1..Len(rows) |->
        [rows[i] EXCEPT !.cluster = SortPrefix(rows, Len(rows))[i].cluster]]

\* Whole rows are moved: a row keeps its index, its cluster and its text.
sort_values(rows) == SortPrefix(rows, Len(rows))

\* The index is dropped and numbered anew, from 0.
reset_index(rows) == [i \in 1..Len(rows) |-> [rows[i] EXCEPT !.index = i - 1]]

Table ==
    /\ pc = "table" /\ ~blocked
    /\ IF ~kmeans.fitted
       THEN Raise("AttributeError") /\ UNCHANGED <<df, disk>>
       ELSE IF Len(kmeans.labels_) # Len(profiles)
       THEN Raise("ValueError") /\ UNCHANGED <<df, disk>>
       ELSE /\ df' = reset_index(sort_values(DataFrame(kmeans.labels_, profiles)))
            /\ disk' = disk \cup Saved("df", df')
            /\ Advance
            /\ UNCHANGED <<blocked, error>>
    /\ UNCHANGED <<restarted, estimate, env_key, api_key, sent, last_response, inflight, embedding,
                   dog_vector, cat_vector, penguin_vector, distance_dog_to_cat,
                   distance_dog_to_penguin, profiles_vectorized, kmeans, fits,
                   invocations>>

(***************************************************************************)
(* An interactive session: the clustering cell and the cells after it are  *)
(* executed again on the vectors the session holds.                        *)
(***************************************************************************)
RerunClustering ==
    /\ pc = "done" /\ ~blocked
    /\ Len(fits) <= MaxReruns
    /\ pc' = "kmeans"
    /\ UNCHANGED <<disk, restarted, estimate, env_key, api_key, blocked, loop_i, sent, last_response, inflight,
                   embedding, dog_vector, cat_vector, penguin_vector,
                   distance_dog_to_cat, distance_dog_to_penguin,
                   profiles_vectorized, kmeans, fits, df, error, invocations,
                   helper_args>>

(***************************************************************************)
(* A helper session: the key is loaded, get_embedding is defined, and it   *)
(* is called with each pair of helper_args in turn.                        *)
(***************************************************************************)
HelperStrings == {"dog", "cat"}

HelperCall ==
    /\ pc = "helper" /\ ~blocked
    /\ helper_args # <<>>
    /\ get_embedding(Head(helper_args).string, Head(helper_args).model_id, "result")
    /\ UNCHANGED <<disk, restarted, estimate, env_key, api_key, embedding, dog_vector, cat_vector,
                   penguin_vector, distance_dog_to_cat, distance_dog_to_penguin,
                   profiles_vectorized, kmeans, fits, df, error>>

(***************************************************************************)
(* "What happens if you have a lot of vectors?": the size of one vector in *)
(* bytes, the size of all vectors in bytes, and that size in GB.  A size   *)
(* in bytes is a sequence of decimal digits, the lowest first.             *)
(***************************************************************************)
\* A float counted at 4 bytes (single precision).
FloatBytesSingle == 2 + 2

\* "A float is typically 8 bytes in size."
FloatBytes == 8

\* "There are 10 million such vectors."
TenMillion == 10000000

RECURSIVE Digits(_)
Digits(n) == IF n < 10 THEN <<n>> ELSE <<n % 10>> \o Digits(n \div 10)

\* The digits d times the number m, plus the carry c.
RECURSIVE TimesNumber(_, _, _)
TimesNumber(d, m, c) ==
    IF d = <<>> THEN (IF c = 0 THEN <<>> ELSE Digits(c))
    ELSE <<(Head(d) * m + c) % 10>> \o TimesNumber(Tail(d), m, (Head(d) * m + c) \div 10)

DigitAt(d, k) == IF k <= Len(d) THEN d[k] ELSE 0

RECURSIVE Value(_)
Value(d) == IF d = <<>> THEN 0 ELSE Head(d) + 10 * Value(Tail(d))

\* Bytes as GB of 10^9 bytes, to two decimals: the whole GB, the hundredths,
\* and whether the two decimals are exact.
Gigabytes(d) ==
    [whole      |-> IF Len(d) > 9 THEN Value(SubSeq(d, 10, Len(d))) ELSE 0,
     hundredths |-> 10 * DigitAt(d, 9) + DigitAt(d, 8),
     exact      |-> \A k \in 1..7 : DigitAt(d, k) = 0]

NoEstimate ==
    [step |-> "idle", floats |-> 0, bytes_per_float |-> 0, vectors |-> 0,
     vector_bytes |-> 0, total_bytes |-> <<>>,
     gigabytes |-> [whole |-> 0, hundredths |-> 0, exact |-> TRUE]]

\* "1,536 floats X 8 bytes/float"
VectorSize ==
    /\ estimate.step = "inputs"
    /\ estimate' = [estimate EXCEPT !.step = "vector",
                                    !.vector_bytes = estimate.floats * estimate.bytes_per_float]
    /\ UNCHANGED <<disk, restarted, env_key, api_key, pc, blocked, loop_i, sent, last_response,
                   inflight, embedding, dog_vector, cat_vector, penguin_vector,
                   distance_dog_to_cat, distance_dog_to_penguin,
                   profiles_vectorized, kmeans, fits, df, error, invocations,
                   helper_args>>

\* "10,000,000 vectors X 12,288 bytes/vector"
TotalSize ==
    /\ estimate.step = "vector"
    /\ estimate' = [estimate EXCEPT !.step = "total",
                                    !.total_bytes = TimesNumber(Digits(estimate.vector_bytes),
                                                                estimate.vectors, 0)]
    /\ UNCHANGED <<disk, restarted, env_key, api_key, pc, blocked, loop_i, sent, last_response,
                   inflight, embedding, dog_vector, cat_vector, penguin_vector,
                   distance_dog_to_cat, distance_dog_to_penguin,
                   profiles_vectorized, kmeans, fits, df, error, invocations,
                   helper_args>>

\* "... bytes, 122.88 GB"
InGigabytes ==
    /\ estimate.step = "total"
    /\ estimate' = [estimate EXCEPT !.step = "done",
                                    !.gigabytes = Gigabytes(estimate.total_bytes)]
    /\ UNCHANGED <<disk, restarted, env_key, api_key, pc, blocked, loop_i, sent, last_response,
                   inflight, embedding, dog_vector, cat_vector, penguin_vector,
                   distance_dog_to_cat, distance_dog_to_penguin,
                   profiles_vectorized, kmeans, fits, df, error, invocations,
                   helper_args>>

(***************************************************************************)
(* Specifications.                                                         *)
(***************************************************************************)
Fresh ==
    /\ estimate = NoEstimate
    /\ blocked = FALSE
    /\ loop_i = 0
    /\ sent = <<>>
    /\ last_response = [id |-> 0, data |-> NoneVal]
    /\ inflight = {}
    /\ embedding = NoneVal
    /\ dog_vector = NoneVal
    /\ cat_vector = NoneVal
    /\ penguin_vector = NoneVal
    /\ distance_dog_to_cat = 0 - 1
    /\ distance_dog_to_penguin = 0 - 1
    /\ profiles_vectorized = <<>>
    /\ kmeans = [fitted |-> FALSE, labels_ |-> <<>>, cluster_centers_ |-> <<>>]
    /\ fits = <<>>
    /\ df = <<>>
    /\ error = "none"
    /\ invocations = <<>>

\* A fresh kernel about to run the first code cell.
Init ==
    /\ disk = {}
    /\ restarted = FALSE
    /\ env_key \in BOOLEAN
    /\ api_key = "unset"
    /\ pc = "load_key"
    /\ helper_args = <<>>
    /\ Fresh

Next ==
    \/ LoadKey
    \/ HelloCall
    \/ AnimalCall
    \/ Distance
    \/ ProfileCall
    \/ EmbeddingReturn
    \/ EmbeddingFail
    \/ KMeansCall
    \/ KMeansReturn
    \/ Table

\* Run All: every cell once, top to bottom.
Spec == Init /\ [][Next]_vars

\* The kernel is restarted: every name of the session is gone, a call in
\* progress is abandoned, and the notebook starts again at its first cell.
\* The environment and what was written outside the memory stay.
Restart ==
    /\ restarted' = TRUE
    /\ api_key' = "unset"
    /\ pc' = "load_key"
    /\ blocked' = FALSE
    /\ loop_i' = 0
    /\ sent' = <<>>
    /\ last_response' = [id |-> 0, data |-> NoneVal]
    /\ inflight' = {}
    /\ embedding' = NoneVal
    /\ dog_vector' = NoneVal
    /\ cat_vector' = NoneVal
    /\ penguin_vector' = NoneVal
    /\ distance_dog_to_cat' = 0 - 1
    /\ distance_dog_to_penguin' = 0 - 1
    /\ profiles_vectorized' = <<>>
    /\ kmeans' = [fitted |-> FALSE, labels_ |-> <<>>, cluster_centers_ |-> <<>>]
    /\ fits' = <<>>
    /\ df' = <<>>
    /\ error' = "none"
    /\ invocations' = <<>>
    /\ UNCHANGED <<env_key, helper_args, disk, estimate>>

NextRestart == Next \/ Restart

\* Sessions of the notebook, each ended by a restart of the kernel.
SpecRestart == Init /\ [][NextRestart]_vars

\* A session in which the loop has just completed: every request has been
\* answered, profiles_vectorized holds any five embeddings of the engine.
InitCluster ==
    /\ estimate = NoEstimate
    /\ disk = {}
    /\ restarted = FALSE
    /\ env_key = TRUE
    /\ api_key = "sk"
    /\ pc = "kmeans"
    /\ blocked = FALSE
    /\ loop_i = Len(profiles)
    /\ helper_args = <<>>
    /\ profiles_vectorized \in
          [1..Len(profiles) -> {ApiEmbedding(model_id, j) : j \in 1..ClusterVecs}]
    /\ embedding = profiles_vectorized[Len(profiles)]
    /\ last_response = [id |-> 4 + Len(profiles), data |-> embedding]
    /\ sent = <<[input |-> text_string, engine |-> model_id]>>
              \o [n \in 1..3 |-> [input |-> <<"dog", "cat", "penguin">>[n],
                                  engine |-> default_model_id]]
              \o [n \in 1..Len(profiles) |-> [input |-> profiles[n], engine |-> model_id]]
    /\ inflight = {}
    /\ dog_vector = np_array(ApiEmbedding(default_model_id, 1))
    /\ cat_vector = np_array(ApiEmbedding(default_model_id, 1))
    /\ penguin_vector = np_array(ApiEmbedding(default_model_id, 1))
    /\ distance_dog_to_cat = 0
    /\ distance_dog_to_penguin = 0
    /\ kmeans = [fitted |-> FALSE, labels_ |-> <<>>, cluster_centers_ |-> <<>>]
    /\ fits = <<>>
    /\ df = <<>>
    /\ error = "none"
    /\ invocations = [n \in 1..3 |-> [string |-> <<"dog", "cat", "penguin">>[n],
                                      model_id |-> default_model_id,
                                      request |-> n + 1,
                                      result |-> np_array(ApiEmbedding(default_model_id, 1))]]

NextCluster ==
    \/ KMeansCall
    \/ KMeansReturn
    \/ Table
    \/ RerunClustering

SpecCluster == InitCluster /\ [][NextCluster]_vars

HelperArg == [string : HelperStrings, model_id : {default_model_id, other_model_id}]

InitHelper ==
    /\ disk = {}
    /\ restarted = FALSE
    /\ env_key = TRUE
    /\ api_key = "sk"
    /\ pc = "helper"
    /\ helper_args \in UNION {[1..n -> HelperArg] : n \in 1..MaxCalls}
    /\ Fresh

NextHelper ==
    \/ HelperCall
    \/ EmbeddingReturn
    \/ EmbeddingFail

SpecHelper == InitHelper /\ [][NextHelper]_vars

\* The estimate for any number of floats, float size and number of vectors.
InitEstimate ==
    /\ disk = {}
    /\ restarted = FALSE
    /\ env_key \in BOOLEAN
    /\ api_key = "unset"
    /\ pc = "load_key"
    /\ helper_args = <<>>
    /\ blocked = FALSE
    /\ loop_i = 0
    /\ sent = <<>>
    /\ last_response = [id |-> 0, data |-> NoneVal]
    /\ inflight = {}
    /\ embedding = NoneVal
    /\ dog_vector = NoneVal
    /\ cat_vector = NoneVal
    /\ penguin_vector = NoneVal
    /\ distance_dog_to_cat = 0 - 1
    /\ distance_dog_to_penguin = 0 - 1
    /\ profiles_vectorized = <<>>
    /\ kmeans = [fitted |-> FALSE, labels_ |-> <<>>, cluster_centers_ |-> <<>>]
    /\ fits = <<>>
    /\ df = <<>>
    /\ error = "none"
    /\ invocations = <<>>
    /\ \E f \in {AdaDim \div 2, AdaDim, AdaDim + 1, AdaDim * 2, AdaDim * 8},
          b \in {FloatBytes \div 4, FloatBytes \div 2, FloatBytes, FloatBytes * 2},
          v \in {1, 999, TenMillion \div 10, TenMillion, TenMillion + 1, TenMillion * 10} :
          estimate = [NoEstimate EXCEPT !.step = "inputs", !.floats = f,
                                        !.bytes_per_float = b, !.vectors = v]

NextEstimate ==
    \/ VectorSize
    \/ TotalSize
    \/ InGigabytes

SpecEstimate == InitEstimate /\ [][NextEstimate]_vars

(***************************************************************************)
(* Properties.                                                             *)
(***************************************************************************)
EmbeddingCallsInFlight == {c \in inflight : c.callee = "Embedding.create"}

\* C1: execution is sequential.  After every step at most one external call
\* (an embedding request or the clustering call) is in progress and the
\* interpreter waits exactly while one is; every request sent has been
\* answered except the one in progress (none is batched, pipelined or
\* cancelled); and while a call is in progress the only step is its return:
\* no request is sent, no call is started, nothing is computed or displayed.
C1_Sequential ==
    [][ /\ Cardinality(inflight') <= 1
        /\ blocked' <=> (inflight' # {})
        /\ Len(sent') = last_response'.id + Cardinality(EmbeddingCallsInFlight')
        /\ (inflight # {}) =>
              /\ inflight' = {}
              /\ sent' = sent
              /\ df' = df
              /\ distance_dog_to_cat' = distance_dog_to_cat
              /\ distance_dog_to_penguin' = distance_dog_to_penguin
      ]_vars

\* The clustering call is in progress, after nine requests that were each
\* answered before the next step.
C1_Witness ==
    /\ \E c \in inflight : c.callee = "KMeans.fit"
    /\ Len(sent) = 4 + Len(profiles)
    /\ blocked

\* C2: a failed embedding request is not caught and not retried.  Once a
\* request has failed, its exception is the one the runtime holds, the
\* request is the last one sent and was sent exactly once, nothing is in
\* progress, no clustering has been done, no table exists, and no step of
\* the run can be taken any more.
C2_FailurePropagates ==
    IsFailure(last_response.data) =>
        /\ error = last_response.data.type
        /\ pc = "failed"
        /\ ~blocked
        /\ inflight = {}
        /\ last_response.id = Len(sent)
        /\ Cardinality({n \in 1..Len(sent) : sent[n] = sent[last_response.id]}) = 1
        /\ ~kmeans.fitted
        /\ fits = <<>>
        /\ df = <<>>
        /\ ~ENABLED Next

\* The request for the third profile has failed.
C2_Witness ==
    /\ IsFailure(last_response.data)
    /\ loop_i = 2
    /\ Len(profiles_vectorized) = 2

\* C3: get_embedding sends one request per invocation, carrying the
\* invocation's string and model id, and returns the elements of the
\* response's embedding in their order; it answers nothing from a cache.
\* The n-th invocation sent the n-th request, and the result of the
\* invocation answered last is the embedding of that response.
C3_GetEmbedding ==
    /\ Len(sent) = Len(invocations)
    /\ \A n \in 1..Len(invocations) :
          /\ invocations[n].request = n
          /\ sent[n] = [input |-> invocations[n].string, engine |-> invocations[n].model_id]
          /\ (last_response.id = n /\ ~IsFailure(last_response.data)) =>
                /\ invocations[n].result.dim = last_response.data.dim
                /\ Len(invocations[n].result.head) = Len(last_response.data.head)
                /\ \A k \in 1..Len(last_response.data.head) :
                      invocations[n].result.head[k] = last_response.data.head[k]
    /\ Cardinality({n \in 1..Len(invocations) : invocations[n].result # NoneVal})
          = IF IsFailure(last_response.data) THEN last_response.id - 1 ELSE last_response.id

\* Two invocations with the same string and model have both returned.
C3_Witness ==
    /\ Len(invocations) = 2
    /\ invocations[1].string = invocations[2].string
    /\ invocations[1].model_id = invocations[2].model_id
    /\ invocations[1].result # NoneVal
    /\ invocations[2].result # NoneVal
    /\ invocations[1].result # invocations[2].result

\* The vectors the session holds.
Held ==
    ({embedding, dog_vector, cat_vector, penguin_vector}
        \cup {profiles_vectorized[i] : i \in 1..Len(profiles_vectorized)}) \ {NoneVal}

\* C4: every embedding vector the run holds has the one length of the
\* engine text-embedding-ada-002, 1,536: the vector of "Hello, world!", the
\* three animal vectors and the five profile vectors.
C4_FixedLength == \A v \in Held : v.dim = AdaDim

\* The animal vectors and all five profile vectors are held.
C4_Witness ==
    /\ Len(profiles_vectorized) = Len(profiles)
    /\ dog_vector # NoneVal /\ cat_vector # NoneVal /\ penguin_vector # NoneVal
    /\ Cardinality(Held) >= 2

\* The groups of positions that a label array puts together.
Partition(lab) == {Members(lab, g) : g \in {lab[i] : i \in 1..Len(lab)}}

C6_Labels ==
    kmeans.fitted =>
        /\ Len(kmeans.labels_) = Len(profiles)
        /\ \A i \in 1..Len(kmeans.labels_) :
              /\ kmeans.labels_[i] \in {0, 1}
              /\ kmeans.labels_[i] = Label(profiles_vectorized[i].head, kmeans.cluster_centers_)

\* A fit that has used both labels, on three distinct vectors.
C6_Witness ==
    /\ kmeans.fitted
    /\ {kmeans.labels_[i] : i \in 1..Len(kmeans.labels_)} = {0, 1}
    /\ Cardinality({profiles_vectorized[i] : i \in 1..Len(profiles_vectorized)}) = 3

\* C7: the results table has one row per profile, each row holds a
\* profile's text with the label the clustering gave that profile, and the
\* rows are in non-decreasing order of the label.
C7_Table ==
    df # <<>> =>
        /\ Len(df) = Len(profiles)
        /\ \A i \in 1..Len(profiles) :
              /\ Cardinality({r \in 1..Len(df) : df[r].text = profiles[i]}) = 1
              /\ \A r \in 1..Len(df) :
                    df[r].text = profiles[i] => df[r].cluster = kmeans.labels_[i]
        /\ \A r \in 1..(Len(df) - 1) : df[r].cluster <= df[r + 1].cluster

\* A table whose sort has moved the first profile's row, with both labels.
C7_Witness ==
    /\ df # <<>>
    /\ df[1].text # profiles[1]
    /\ df[1].cluster < df[Len(df)].cluster

ClusteringCalled == kmeans.fitted \/ \E c \in inflight : c.callee = "KMeans.fit"

\* C8: the steps come in a fixed order.  A request has been sent only with
\* the key loaded; the clustering call has been made only with an embedding
\* received for every profile; the table exists only with the clustering
\* call returned.
C8_Order ==
    /\ sent # <<>> => api_key # "unset"
    /\ ClusteringCalled =>
          /\ Len(profiles_vectorized) = Len(profiles)
          /\ EmbeddingCallsInFlight = {}
          /\ ~IsFailure(last_response.data)
          /\ \A i \in 1..Len(profiles) :
                \E n \in 1..last_response.id : sent[n].input = profiles[i]
    /\ df # <<>> => kmeans.fitted /\ inflight = {}

\* The table is displayed at the end of a run.
C8_Witness ==
    /\ pc = "done"
    /\ df # <<>>
    /\ kmeans.fitted

\* The requests of the loop among the requests s, in the order sent.
ProfileRequests(s) ==
    SelectSeq(s, LAMBDA r : \E i \in 1..Len(profiles) : r.input = profiles[i])

\* C9: each profile is encoded as a single vector.  A step never changes an
\* element that profiles_vectorized holds; the answer to the request for
\* the i-th profile becomes its i-th element; and when the loop completes
\* the list is as long as profiles and the loop has sent one request per
\* profile, in list order.
C9_OneVectorPerProfile ==
    [][ /\ \A i \in 1..Len(profiles_vectorized) :
              /\ Len(profiles_vectorized') >= i
              /\ profiles_vectorized'[i] = profiles_vectorized[i]
        /\ \A i \in 1..Len(profiles) :
              (/\ last_response' # last_response
               /\ ~IsFailure(last_response'.data)
               /\ sent'[last_response'.id].input = profiles[i]) =>
                  /\ Len(profiles_vectorized') = i
                  /\ profiles_vectorized'[i] = last_response'.data
        /\ loop_i' = Len(profiles) =>
              /\ Len(profiles_vectorized') = Len(profiles)
              /\ ProfileRequests(sent') =
                    [i \in 1..Len(profiles) |-> [input |-> profiles[i], engine |-> model_id]]
      ]_vars

\* The loop has completed with two different vectors in the list.
C9_Witness ==
    /\ loop_i = Len(profiles)
    /\ Len(profiles_vectorized) = Len(profiles)
    /\ profiles_vectorized[1] # profiles_vectorized[2]

\* The figures the notebook states.
StatedVectorBytes == 12288

StatedTotalBytes == <<0, 0, 0, 0, 0, 0, 0, 8, 8, 2, 2, 1>>

StatedGigabytes == [whole |-> 122, hundredths |-> 88, exact |-> TRUE]

NotebookInputs ==
    /\ estimate.floats = AdaDim
    /\ estimate.bytes_per_float = FloatBytes
    /\ estimate.vectors = TenMillion

\* C10: the storage estimate is arithmetically correct.  For 1,536 floats
\* of 8 bytes and 10,000,000 vectors, a vector takes 12,288 bytes, the
\* vectors take 122,880,000,000 bytes, and that is exactly 122.88 GB of
\* 10^9 bytes.
C10_StorageEstimate ==
    NotebookInputs =>
        /\ estimate.step \in {"vector", "total", "done"} =>
              estimate.vector_bytes = StatedVectorBytes
        /\ estimate.step \in {"total", "done"} =>
              estimate.total_bytes = StatedTotalBytes
        /\ estimate.step = "done" => estimate.gigabytes = StatedGigabytes

\* The estimate for the notebook's inputs has been carried to its end.
C10_Witness ==
    /\ NotebookInputs
    /\ estimate.step = "done"
    /\ Len(estimate.total_bytes) = 12

\* C12: without OPENAI_API_KEY in the environment the run fails at the
\* key-loading statement.  The run is either still before that statement or
\* has stopped there with the KeyError of the lookup; no key is ever set,
\* no embedding request is ever sent or in progress, nothing is bound, and
\* once it has failed no step of the run can be taken.
C12_NoKeyNoRequest ==
    ~env_key =>
        /\ pc \in {"load_key", "failed"}
        /\ pc = "failed" => error = "KeyError" /\ ~ENABLED Next
        /\ api_key = "unset"
        /\ sent = <<>>
        /\ inflight = {}
        /\ ~blocked
        /\ last_response.id = 0
        /\ Held = {}
        /\ profiles_vectorized = <<>>

\* The key lookup has failed.
C12_Witness ==
    /\ ~env_key
    /\ pc = "failed"
    /\ error = "KeyError"

\* The response resp to a request of s is the failure of the request for
\* the i-th profile.
ProfileFailed(resp, s, i) ==
    /\ IsFailure(resp.data)
    /\ resp.id \in 1..Len(s)
    /\ s[resp.id].input = profiles[i]

\* C15: a failure of the request for the i-th profile leaves
\* profiles_vectorized with the embeddings of the first i-1 profiles, in
\* order, and the clustering call is never made on it.  Each successful
\* answer inside the loop is appended to the list; the step in which the
\* i-th request fails leaves the list as it is, with i-1 elements, and
\* stops the run with no clustering called; after that no step of the run
\* is taken, so the list is never passed to the clustering call.
C15_PartialList ==
    [][ \A i \in 1..Len(profiles) :
          /\ (/\ last_response' # last_response
              /\ ~IsFailure(last_response'.data)
              /\ sent'[last_response'.id].input = profiles[i]) =>
                 /\ Len(profiles_vectorized) = i - 1
                 /\ profiles_vectorized' =
                       Append(profiles_vectorized, last_response'.data)
          /\ (/\ last_response' # last_response
              /\ ProfileFailed(last_response', sent', i)) =>
                 /\ profiles_vectorized' = profiles_vectorized
                 /\ Len(profiles_vectorized') = i - 1
                 /\ loop_i' = i - 1
                 /\ pc' = "failed"
                 /\ ~ClusteringCalled'
                 /\ fits' = <<>>
          /\ ProfileFailed(last_response, sent, i) => vars' = vars
      ]_vars

\* The request for the fourth profile has failed with three vectors in the
\* list.
C15_Witness ==
    /\ ProfileFailed(last_response, sent, 4)
    /\ Len(profiles_vectorized) = 3
    /\ pc = "failed"
    /\ ~kmeans.fitted

\* The requests sent for the strings in S.
RequestsFor(S) == {n \in 1..Len(sent) : sent[n].input \in S}

\* C16: every embedding request of a run names the model
\* "text-embedding-ada-002", whether it is made inline with the global
\* model_id or by get_embedding with its default argument.  Hence the
\* requests whose vectors are subtracted in a distance name one model, and
\* so do the requests whose vectors are clustered together.
C16_OneModel ==
    /\ \A n \in 1..Len(sent) : sent[n].engine = "text-embedding-ada-002"
    /\ \A n \in 1..Len(invocations) :
          invocations[n].model_id = "text-embedding-ada-002"
    /\ distance_dog_to_cat # 0 - 1 =>
          /\ RequestsFor({"dog", "cat"}) # {}
          /\ \A m, n \in RequestsFor({"dog", "cat"}) : sent[m].engine = sent[n].engine
          /\ dog_vector.dim = cat_vector.dim
    /\ distance_dog_to_penguin # 0 - 1 =>
          /\ \A m, n \in RequestsFor({"dog", "penguin"}) : sent[m].engine = sent[n].engine
          /\ dog_vector.dim = penguin_vector.dim
    /\ ClusteringCalled =>
          /\ Cardinality(RequestsFor({profiles[i] : i \in 1..Len(profiles)})) = Len(profiles)
          /\ \A m, n \in RequestsFor({profiles[i] : i \in 1..Len(profiles)}) :
                sent[m].engine = sent[n].engine

\* Both distances have been computed and the five profile vectors have
\* been clustered, after inline calls and calls through get_embedding.
C16_Witness ==
    /\ distance_dog_to_cat # 0 - 1
    /\ distance_dog_to_penguin # 0 - 1
    /\ kmeans.fitted
    /\ \E n \in 1..Len(sent) : sent[n].input = text_string
    /\ Len(invocations) = 3

\* The requests of a full run: "Hello, world!", the three animals through
\* get_embedding, the five profiles.
FullRunInputs == <<text_string, "dog", "cat", "penguin">> \o profiles

\* The run has come to its end with all cells executed.
RunComplete ==
    /\ pc = "done"
    /\ error = "none"
    /\ ~blocked
    /\ inflight = {}
    /\ ~ENABLED Next
    /\ [n \in 1..Len(sent) |-> sent[n].input] = FullRunInputs
    /\ Len(sent) = 9
    /\ last_response.id = 9
    /\ Len(invocations) = 3
    /\ Len(profiles_vectorized) = 5
    /\ Len(fits) = 1
    /\ kmeans.fitted
    /\ df # <<>>

\* The clustering calls made so far: the fits that have returned and the
\* one in progress.
ClusteringCalls == Len(fits) + Cardinality({c \in inflight : c.callee = "KMeans.fit"})

\* The work a run has done: the key loaded, the requests sent, the
\* responses received, the distances computed, the clustering calls made
\* and returned, the table built.
Executed ==
    (IF api_key = "unset" THEN 0 ELSE 1)
    + Len(sent) + last_response.id
    + (IF distance_dog_to_cat = 0 - 1 THEN 0 ELSE 1)
    + (IF distance_dog_to_penguin = 0 - 1 THEN 0 ELSE 1)
    + ClusteringCalls + Len(fits)
    + (IF df = <<>> THEN 0 ELSE 1)

\* The steps of a full run: the key, a send and a return for each request,
\* two distances, the call and the return of the clustering, the table.
FullRunSteps == 1 + 2 * Len(FullRunInputs) + 2 + 2 + 1

\* A step of the run can be taken.  The return of kmeans.fit and the table
\* statement have no condition but the one written here: each of them
\* either completes or raises.
CanStep ==
    \/ ENABLED (LoadKey \/ HelloCall \/ AnimalCall \/ Distance \/ ProfileCall
                   \/ EmbeddingReturn \/ KMeansCall)
    \/ \E c \in inflight : c.callee = "KMeans.fit"
    \/ pc = "table" /\ ~blocked

\* C14: a run in which nothing fails terminates after exactly 9 embedding
\* requests and exactly 1 clustering call.  As long as nothing has failed,
\* every step of the run does one more piece of the work of a full run, so
\* a run has no more steps than a full run has; before the last of them a
\* further step can always be taken and the end of the notebook has not
\* been reached; and after the last of them the run is at its end with
\* nothing left to execute, having sent the requests for "Hello, world!",
\* the 3 animals and the 5 profiles, in that order, and clustered once.
\* A run fails only by a missing key or by a request that has failed.  No
\* run ever sends more than 9 requests or clusters more than once.
C14_FullRun ==
    /\ [](error # "none" =>
            \/ ~env_key /\ error = "KeyError" /\ sent = <<>>
            \/ IsFailure(last_response.data) /\ error = last_response.data.type)
    /\ [](error = "none" =>
            /\ Executed <= FullRunSteps
            /\ Executed < FullRunSteps => CanStep /\ pc # "done"
            /\ Executed = FullRunSteps => RunComplete)
    /\ [][error' = "none" => Executed' = Executed + 1]_vars
    /\ [](Len(sent) <= 9 /\ ClusteringCalls <= 1)

\* A run has come to its end after 9 requests and 1 clustering call.
C14_Witness ==
    /\ RunComplete
    /\ Executed = FullRunSteps
    /\ ClusteringCalls = 1
    /\ ~IsFailure(last_response.data)

\* The leading components of the profile vectors.
ProfilePoints == [i \in 1..Len(profiles_vectorized) |-> profiles_vectorized[i].head]

\* The centre c is the mean of the points of P at the positions in S: c
\* times the number of those points is their sum.
IsMeanOf(c, P, S) ==
    \A k \in 1..Support :
        c.sum[k] * Cardinality(S) = SumPoints(P, S, Support)[k] * c.cnt

Answered(s) ==
    \E n \in 1..Len(sent) :
        /\ sent[n].input = s
        /\ n <= last_response.id
        /\ (n = last_response.id => ~IsFailure(last_response.data))

\* No embedding, label or table is bound to a name.
NothingAvailable ==
    /\ Held = {}
    /\ profiles_vectorized = <<>>
    /\ ~kmeans.fitted
    /\ kmeans.labels_ = <<>>
    /\ df = <<>>

\* C11: the notebook persists nothing.  Nothing is ever written outside
\* the memory of the session; a session at its first cell, be it the first
\* session or one after a restart, has no embedding, no label and no
\* table, and has sent no request; and whatever a session holds it has
\* obtained itself: every embedding bound to a name answers a request this
\* session has sent for that text, the labels come from a fit of this
\* session on five such embeddings, and the table from those labels.
C11_NothingPersists ==
    /\ disk = {}
    /\ pc = "load_key" => NothingAvailable /\ sent = <<>> /\ inflight = {}
    /\ embedding # NoneVal =>
          Answered(text_string) \/ \E i \in 1..Len(profiles) : Answered(profiles[i])
    /\ dog_vector # NoneVal => Answered("dog")
    /\ cat_vector # NoneVal => Answered("cat")
    /\ penguin_vector # NoneVal => Answered("penguin")
    /\ \A i \in 1..Len(profiles_vectorized) : Answered(profiles[i])
    /\ kmeans.fitted =>
          /\ fits # <<>>
          /\ Len(profiles_vectorized) = Len(profiles)
    /\ df # <<>> => kmeans.fitted

\* After a restart the new session has requested the embedding of "dog"
\* again and holds it; it has no table yet.
C11_Witness ==
    /\ restarted
    /\ pc = "cat"
    /\ dog_vector # NoneVal
    /\ Len(sent) = 2
    /\ df = <<>>

====
